---- MODULE Spec2Model ----
(***************************************************************************)
(* svdb_gateway: the DPI boundary (sqlite_dpi.c) over the SQLite           *)
(* primitives (sqlite_primitive.c).                                        *)
(*                                                                         *)
(* A C string is a sequence of symbols.  A symbol is the separator ","     *)
(* or a comma-free piece of text ("id", "name", "1", "a"): the decoder     *)
(* tells nothing else apart.  The SQLite engine is not part of the         *)
(* repository; each sqlite3_* call is modelled at its call site by the     *)
(* engine's documented behaviour on the statement the code builds.         *)
(*                                                                         *)
(* C int and the engine's 64-bit row identifier keep their relation        *)
(* (row identifiers are wider than int) at a reduced width: IntBits and    *)
(* RowidBits.                                                              *)
(***************************************************************************)
EXTENDS Integers, Sequences, FiniteSets, TLC

VARIABLES
    tables,   \* the database: folded table name -> table
    txn,      \* the connection's open transaction, with the state to roll back to
    conn,     \* "new" (never opened), "open", "closed" or "crashed"
    call      \* the last call across the boundary: what was asked, what came back

vars == <<tables, txn, conn, call>>

----------------------------------------------------------------------------
\* Bounds

\* rows a table holds at most
MaxRows == 2

\* width of C int (32 in the build), reduced
IntBits == 2

\* width of sqlite3_int64 (64 in the build), reduced
RowidBits == 4

RECURSIVE Pow2(_)
Pow2(n) == IF n = 0 THEN 1 ELSE 2 * Pow2(n - 1)

IntMax == Pow2(IntBits - 1) - 1
IntMin == 0 - Pow2(IntBits - 1)
RowidMax == Pow2(RowidBits - 1) - 1

CInts == IntMin..IntMax

\* the implicit conversion of a sqlite3_int64 to int: the low IntBits bits
ToInt(v) == ((v + Pow2(IntBits - 1)) % Pow2(IntBits)) - Pow2(IntBits - 1)

----------------------------------------------------------------------------
\* Strings

Sep == ","

\* strtok(s, ","): leading separators are skipped
RECURSIVE SkipSep(_)
SkipSep(s) ==
    IF s # <<>> /\ Head(s) = Sep THEN SkipSep(Tail(s)) ELSE s

\* the length of the token at the start of s: up to the next separator
RECURSIVE TokLen(_)
TokLen(s) ==
    IF s = <<>> \/ Head(s) = Sep THEN 0 ELSE 1 + TokLen(Tail(s))

\* the while loop over strtok (sqlite_dpi.c 53-60, 66-74): the tokens in order;
\* strtok never returns an empty token
RECURSIVE StrtokAll(_)
StrtokAll(s) ==
    LET r == SkipSep(s)
    IN  IF r = <<>> THEN <<>>
        ELSE LET n == TokLen(r)
             IN  <<SubSeq(r, 1, n)>> \o StrtokAll(SubSeq(r, n + 2, Len(r)))


----------------------------------------------------------------------------
\* Values of the engine

Null == [t |-> "null", n |-> 0, s |-> <<>>]
IntV(k) == [t |-> "int", n |-> k, s |-> <<>>]
TextV(x) == [t |-> "text", n |-> 0, s |-> x]
RealV(x) == [t |-> "real", n |-> 0, s |-> x]

Digits == <<"0", "1", "2", "3", "4", "5", "6", "7", "8", "9">>

IsDigit(c) == \E i \in 1..Len(Digits) : Digits[i] = c

DigitVal(c) == (CHOOSE i \in 1..Len(Digits) : Digits[i] = c) - 1

\* a text the engine reads as an integer: digits only
LooksInt(x) == x # <<>> /\ \A i \in 1..Len(x) : IsDigit(x[i])

RECURSIVE NumVal(_)
NumVal(x) ==
    IF x = <<>> THEN 0 ELSE 10 * NumVal(SubSeq(x, 1, Len(x) - 1)) + DigitVal(x[Len(x)])

\* the decimal text of an integer, as sqlite3_column_text renders it
RECURSIVE NatText(_)
NatText(k) ==
    IF k < 10 THEN <<Digits[k + 1]>> ELSE NatText(k \div 10) \o <<Digits[(k % 10) + 1]>>

IntText(k) == IF k < 0 THEN <<"-">> \o NatText(0 - k) ELSE NatText(k)

\* sqlite3_bind_text into a column: the column's affinity decides what is stored.
\* INTEGER affinity turns a text that looks like an integer into that integer
\* (a number beyond the 64-bit range becomes a float); TEXT keeps the text.
Affinity(aff, x) ==
    IF aff = "INTEGER" /\ LooksInt(x)
    THEN IF NumVal(x) <= RowidMax THEN IntV(NumVal(x)) ELSE RealV(x)
    ELSE TextV(x)

\* sqlite3_column_text: NULL for SQL NULL, else the value as text.  Absent is
\* told from every text, the empty one included.
Absent == [some |-> FALSE, s |-> <<>>]
Some(x) == [some |-> TRUE, s |-> x]

ColumnTextMutEmpty(v) ==
    CASE v.t = "null" -> Some(<<>>)
      [] v.t = "int" -> Some(IntText(v.n))
      [] v.t = "real" -> Some(v.s \o <<".0">>)
      [] OTHER -> Some(v.s)

ColumnText(v) ==
    CASE v.t = "null" -> Absent
      [] v.t = "int" -> Some(IntText(v.n))
      [] v.t = "real" -> Some(v.s \o <<".0">>)
      [] OTHER -> Some(v.s)

----------------------------------------------------------------------------
\* Tables of the engine

Col(nm, aff, pk) == [name |-> nm, aff |-> aff, pk |-> pk]

IdCol == <<"id">>
NameCol == <<"name">>

\* "id INTEGER PRIMARY KEY, name TEXT": id is the row identifier itself
PkDefs == <<Col(IdCol, "INTEGER", TRUE), Col(NameCol, "TEXT", FALSE)>>

\* "id INTEGER": id is an ordinary column, the row identifier is implicit
PlainDefs == <<Col(IdCol, "INTEGER", FALSE)>>

ColumnDefs == {PkDefs, PlainDefs}

TableNames == {<<"t">>, <<"T">>}

\* identifiers are case-insensitive in the engine
Lower(c) == IF c = "T" THEN "t" ELSE c

Fold(nm) == [i \in 1..Len(nm) |-> Lower(nm[i])]

Keys == {Fold(nm) : nm \in TableNames}

EmptyRows == [r \in {} |-> <<>>]

NoTable == [exists |-> FALSE, name |-> <<>>, cols |-> <<>>, rows |-> EmptyRows]

EmptyDb == [k \in Keys |-> NoTable]

\* the table a statement's identifier resolves to
Lookup(db, nm) == IF Fold(nm) \in Keys THEN db[Fold(nm)] ELSE NoTable

ColIndex(tb, cn) ==
    IF \E j \in 1..Len(tb.cols) : tb.cols[j].name = cn
    THEN CHOOSE j \in 1..Len(tb.cols) : tb.cols[j].name = cn
    ELSE 0

PkIndex(tb) ==
    IF \E j \in 1..Len(tb.cols) : tb.cols[j].pk
    THEN CHOOSE j \in 1..Len(tb.cols) : tb.cols[j].pk
    ELSE 0

Rowids(tb) == DOMAIN tb.rows

\* rowids in ascending order: the order a table scan returns rows in
RECURSIVE SortedIds(_)
SortedIds(S) ==
    IF S = {} THEN <<>>
    ELSE LET m == CHOOSE x \in S : \A y \in S : x <= y
         IN  <<m>> \o SortedIds(S \ {m})

MaxOf(S) == CHOOSE x \in S : \A y \in S : y <= x

----------------------------------------------------------------------------
\* Statements: what preparing and stepping the statement the code builds does.
\* f is the number of the sqlite3_step call of the operation on which the engine
\* reports a failure of its own (SQLITE_BUSY, SQLITE_IOERR, ...); 0: none.

\* the open transaction: the database to roll back to, and whether the
\* transaction has written
NoTxn == [active |-> FALSE, dirty |-> FALSE, saved |-> EmptyDb]

\* a write inside a transaction
Wrote(tx) == IF tx.active THEN [tx EXCEPT !.dirty = TRUE] ELSE tx

\* what one operation leaves behind and hands back: the status, the statements
\* prepared and finalized, the sqlite3_step calls made and the last one's outcome,
\* whether that was a failure of the engine's own, the arrays allocated, whether
\* an allocation failed, the values handed out, the row added, the rows removed;
\* engine: the connection pointer went to a sqlite3_* call
Outcome(db, tx) ==
    [ret |-> 0, crash |-> FALSE, tables |-> db, txn |-> tx, engine |-> TRUE,
     prep |-> 0, fin |-> 0, steps |-> 0, last |-> "none", fault |-> FALSE,
     allocs |-> 0, nomem |-> FALSE, out |-> <<>>, rowid |-> 0, added |-> FALSE,
     removed |-> 0, row_count |-> 0, col_count |-> 0, written |-> 0]

\* a statement prepared, stepped k times, finalized
SteppedMutLeak(o, k, last, f) ==
    [o EXCEPT !.prep = 1, !.fin = IF last = "error" THEN 0 ELSE 1, !.steps = k,
              !.last = last, !.fault = (last = "error" /\ f = k)]

Stepped(o, k, last, f) ==
    [o EXCEPT !.prep = 1, !.fin = 1, !.steps = k, !.last = last,
              !.fault = (last = "error" /\ f = k)]

\* the outcome of the k-th sqlite3_step of a query with n result rows
StepOf(k, n, f) ==
    IF k = f THEN "error" ELSE IF k <= n THEN "row" ELSE "done"

\* while (sqlite3_step(stmt) == SQLITE_ROW): the number of calls made
RECURSIVE StepsThrough(_, _, _)
StepsThrough(k, n, f) ==
    IF StepOf(k, n, f) = "row" THEN StepsThrough(k + 1, n, f) ELSE k

Query(kind, nm, defs) == [kind |-> kind, table |-> nm, defs |-> defs]

\* sqlite3_prepare_v2 of the query text
PrepareOk(db, q) ==
    CASE q.kind = "bad" -> FALSE
      [] q.kind = "select" -> Lookup(db, q.table).exists
      [] q.kind = "insert_blank" ->
            Lookup(db, q.table).exists /\ ColIndex(Lookup(db, q.table), NameCol) # 0
      [] OTHER -> TRUE

\* rows a query returns
QueryRows(db, q) ==
    IF q.kind = "select" THEN Cardinality(Rowids(Lookup(db, q.table))) ELSE 0

\* whether the engine rejects the statement when it runs: a transaction inside
\* a transaction, a commit or rollback outside one, a vacuum inside one
RejectedMutNever(tx, q) == FALSE

Rejected(tx, q) ==
    CASE q.kind = "begin" -> tx.active
      [] q.kind = "commit" -> ~tx.active
      [] q.kind = "rollback" -> ~tx.active
      [] q.kind = "vacuum" -> tx.active
      [] OTHER -> FALSE

\* whether the statement changes the database
Writes(db, q) ==
    CASE q.kind = "create_table" -> ~Lookup(db, q.table).exists
      [] q.kind = "drop_table" -> Lookup(db, q.table).exists
      [] q.kind = "insert_blank" -> TRUE
      [] OTHER -> FALSE

\* the table with a new row whose name is the empty string and whose other
\* columns are NULL, under the next row identifier
WithBlankRow(tb) ==
    LET r == IF Rowids(tb) = {} THEN 1 ELSE MaxOf(Rowids(tb)) + 1
    IN  [tb EXCEPT !.rows = [x \in Rowids(tb) \cup {r} |->
            IF x # r THEN tb.rows[x]
            ELSE [j \in 1..Len(tb.cols) |->
                     IF tb.cols[j].pk THEN IntV(r)
                     ELSE IF tb.cols[j].name = NameCol THEN TextV(<<>>)
                     ELSE Null]]]

\* the database after the statement has run to SQLITE_DONE
TablesAfter(db, tx, q) ==
    CASE q.kind = "rollback" -> tx.saved
      [] q.kind = "insert_blank" ->
            [db EXCEPT ![Fold(q.table)] = WithBlankRow(Lookup(db, q.table))]
      [] q.kind = "create_table" /\ Writes(db, q) ->
            [db EXCEPT ![Fold(q.table)] =
                [exists |-> TRUE, name |-> q.table, cols |-> q.defs, rows |-> EmptyRows]]
      [] q.kind = "drop_table" /\ Writes(db, q) ->
            [db EXCEPT ![Fold(q.table)] = NoTable]
      [] OTHER -> db

TxnAfter(db, tx, q) ==
    CASE q.kind = "begin" -> [active |-> TRUE, dirty |-> FALSE, saved |-> db]
      [] q.kind = "commit" -> NoTxn
      [] q.kind = "rollback" -> NoTxn
      [] Writes(db, q) -> Wrote(tx)
      [] OTHER -> tx

\* the status sqlite_prim_execute_query returns for the last step's outcome
ExecStatusMutAny(last) == 0

ExecStatus(last) == IF last # "done" THEN -1 ELSE 0

\* sqlite_prim_execute_query
sqlite_prim_execute_query(db, tx, q, f) ==
    LET o == Outcome(db, tx)
    IN  IF ~PrepareOk(db, q) THEN [o EXCEPT !.ret = -1]
        ELSE LET n == QueryRows(db, q)
                 k == StepsThrough(1, n, f)
                 raw == StepOf(k, n, f)
                 last == IF raw = "done" /\ Rejected(tx, q) THEN "error" ELSE raw
             IN  [Stepped(o, k, last, f) EXCEPT
                     !.ret = ExecStatus(last),
                     !.tables = IF last = "done" THEN TablesAfter(db, tx, q) ELSE db,
                     !.txn = IF last = "done" THEN TxnAfter(db, tx, q) ELSE tx]

sqlite_prim_create_table(db, tx, nm, defs, f) ==
    sqlite_prim_execute_query(db, tx, Query("create_table", nm, defs), f)

sqlite_prim_drop_table(db, tx, nm, f) ==
    sqlite_prim_execute_query(db, tx, Query("drop_table", nm, <<>>), f)

sqlite_prim_begin_transaction(db, tx, f) ==
    sqlite_prim_execute_query(db, tx, Query("begin", <<>>, <<>>), f)

sqlite_prim_commit_transaction(db, tx, f) ==
    sqlite_prim_execute_query(db, tx, Query("commit", <<>>, <<>>), f)

sqlite_prim_rollback_transaction(db, tx, f) ==
    sqlite_prim_execute_query(db, tx, Query("rollback", <<>>, <<>>), f)

sqlite_prim_vacuum_database(db, tx, f) ==
    sqlite_prim_execute_query(db, tx, Query("vacuum", <<>>, <<>>), f)

----------------------------------------------------------------------------
\* Rows

\* the position of column name cn in the column list of an INSERT; 0 if not listed
Listed(cols, cn) ==
    IF \E i \in 1..Len(cols) : cols[i] = cn
    THEN CHOOSE i \in 1..Len(cols) : cols[i] = cn
    ELSE 0

\* the cells of the new row, in the table's column order: a listed column takes
\* its bound value, the others NULL
InsertCells(tb, cols, vals) ==
    [j \in 1..Len(tb.cols) |->
        IF Listed(cols, tb.cols[j].name) = 0 THEN Null
        ELSE Affinity(tb.cols[j].aff, vals[Listed(cols, tb.cols[j].name)])]

\* the row identifiers the engine may give a row that brings none: one more than
\* the largest in use, or, once the largest possible is in use, any unused one
AutoRowids(tb) ==
    IF Rowids(tb) = {} THEN {1}
    ELSE IF MaxOf(Rowids(tb)) < RowidMax THEN {MaxOf(Rowids(tb)) + 1}
    ELSE (1..RowidMax) \ Rowids(tb)

\* the row identifiers sqlite3_step may insert the row under; none: the step fails
\* (SQLITE_MISMATCH, SQLITE_CONSTRAINT, SQLITE_FULL)
InsertRowids(tb, cells) ==
    IF PkIndex(tb) = 0 \/ cells[PkIndex(tb)].t = "null" THEN AutoRowids(tb)
    ELSE IF cells[PkIndex(tb)].t = "int" THEN {cells[PkIndex(tb)].n} \ Rowids(tb)
    ELSE {}

\* the table with the row stored under rowid r; an INTEGER PRIMARY KEY column
\* reads as the row identifier
WithRow(tb, r, cells) ==
    LET stored == [j \in 1..Len(cells) |-> IF j = PkIndex(tb) THEN IntV(r) ELSE cells[j]]
    IN  [tb EXCEPT !.rows = [x \in Rowids(tb) \cup {r} |->
                                IF x = r THEN stored ELSE tb.rows[x]]]

\* sqlite3_prepare_v2 of "INSERT INTO table (cols) VALUES (?, ...)"
InsertPrepareOk(db, nm, cols, count) ==
    /\ Lookup(db, nm).exists
    /\ count >= 1
    /\ \A i \in 1..count : ColIndex(Lookup(db, nm), cols[i]) # 0

\* what sqlite_prim_insert_row returns for the new row's identifier:
\* int result = sqlite3_last_insert_rowid(db)
InsertResult(r) == ToInt(r)

\* sqlite_prim_insert_row
sqlite_prim_insert_row(db, tx, nm, cols, vals, count, f) ==
    LET o == Outcome(db, tx)
        tb == Lookup(db, nm)
    IN  IF ~InsertPrepareOk(db, nm, cols, count) THEN {[o EXCEPT !.ret = -1]}
        ELSE LET cells == InsertCells(tb, cols, vals)
                 ids == IF f = 1 THEN {} ELSE InsertRowids(tb, cells)
             IN  IF ids = {} THEN {[Stepped(o, 1, "error", f) EXCEPT !.ret = -1]}
                 ELSE {[Stepped(o, 1, "done", f) EXCEPT
                           !.ret = InsertResult(r), !.rowid = r, !.added = TRUE,
                           !.tables = [db EXCEPT ![Fold(nm)] = WithRow(tb, r, cells)],
                           !.txn = Wrote(tx)]
                       : r \in ids}

\* rows of the table whose id column equals the bound integer, in scan order
IdMatchesMutAll(tb, row_id) == SortedIds(Rowids(tb))

IdMatches(tb, row_id) ==
    SelectSeq(SortedIds(Rowids(tb)),
              LAMBDA r : tb.rows[r][ColIndex(tb, IdCol)] = IntV(row_id))

\* sqlite3_prepare_v2 of a statement naming the table and its id column
IdPrepareOk(db, nm) ==
    Lookup(db, nm).exists /\ ColIndex(Lookup(db, nm), IdCol) # 0

\* the rows DELETE FROM table WHERE id = ? leaves
DeleteKeepsMutRowid(tb, row_id) == Rowids(tb) \ {row_id}

DeleteKeeps(tb, row_id) ==
    {r \in Rowids(tb) : tb.rows[r][ColIndex(tb, IdCol)] # IntV(row_id)}

\* sqlite_prim_delete_row
sqlite_prim_delete_row(db, tx, nm, row_id, f) ==
    LET o == Outcome(db, tx)
        tb == Lookup(db, nm)
    IN  IF ~IdPrepareOk(db, nm) THEN [o EXCEPT !.ret = -1]
        ELSE IF f = 1 THEN [Stepped(o, 1, "error", f) EXCEPT !.ret = -1]
        ELSE [Stepped(o, 1, "done", f) EXCEPT
                 !.ret = 0,
                 !.removed = Cardinality(Rowids(tb) \ DeleteKeeps(tb, row_id)),
                 !.tables = [db EXCEPT ![Fold(nm)] =
                     [tb EXCEPT !.rows = [r \in DeleteKeeps(tb, row_id) |-> tb.rows[r]]]],
                 !.txn = IF DeleteKeeps(tb, row_id) # Rowids(tb) THEN Wrote(tx) ELSE tx]

\* the values of a row as sqlite3_column_text gives them, the first n columns
RowTexts(tb, r, n) == [i \in 1..n |-> ColumnText(tb.rows[r][i])]

\* sqlite_prim_get_row.  af: malloc returns NULL.  The arrays are written
\* without a check, so a failed malloc is a write through a null pointer: the
\* process dies, or the write lands and the function goes on.
sqlite_prim_get_row(db, tx, nm, row_id, f, af) ==
    LET o == Outcome(db, tx)
        tb == Lookup(db, nm)
    IN  IF ~IdPrepareOk(db, nm) THEN {[o EXCEPT !.ret = -1]}
        ELSE IF f = 1 THEN {[Stepped(o, 1, "error", f) EXCEPT !.ret = -1]}
        ELSE IF IdMatches(tb, row_id) = <<>>
        THEN {[Stepped(o, 1, "done", f) EXCEPT !.ret = -1]}
        ELSE LET got == [Stepped(o, 1, "row", f) EXCEPT
                            !.col_count = Len(tb.cols),
                            !.ret = 0, !.allocs = IF af THEN 0 ELSE 2, !.nomem = af,
                            !.out = RowTexts(tb, IdMatches(tb, row_id)[1], Len(tb.cols))]
             IN  IF af THEN {[got EXCEPT !.crash = TRUE, !.fin = 0, !.out = <<>>], got}
                 ELSE {got}

\* sqlite_prim_get_row_by_rowid
sqlite_prim_get_row_by_rowid(db, tx, nm, row_id, col_count, f, af) ==
    LET o == Outcome(db, tx)
        tb == Lookup(db, nm)
    IN  IF ~tb.exists THEN [o EXCEPT !.ret = -1]
        ELSE IF f = 1 THEN [Stepped(o, 1, "error", f) EXCEPT !.ret = -1]
        ELSE IF row_id \notin Rowids(tb) THEN [Stepped(o, 1, "done", f) EXCEPT !.ret = -1]
        ELSE IF Len(tb.cols) < col_count THEN [Stepped(o, 1, "row", f) EXCEPT !.ret = -1]
        ELSE IF af THEN [Stepped(o, 1, "row", f) EXCEPT !.ret = -1, !.nomem = TRUE]
        ELSE [Stepped(o, 1, "row", f) EXCEPT
                 !.ret = 0, !.allocs = 1, !.out = RowTexts(tb, row_id, col_count)]

\* the table_exists query: a row of sqlite_master whose name is the text given
MasterHas(db, nm) == \E k \in Keys : db[k].exists /\ db[k].name = nm

\* what sqlite_prim_table_exists returns for the outcome of its one step
ExistsStatus(last) == IF last = "row" THEN 1 ELSE 0

\* sqlite_prim_table_exists
sqlite_prim_table_exists(db, tx, nm, f) ==
    LET last == StepOf(1, IF MasterHas(db, nm) THEN 1 ELSE 0, f)
    IN  [Stepped(Outcome(db, tx), 1, last, f) EXCEPT !.ret = ExistsStatus(last)]

\* sqlite_prim_read_table_schema: steps through the tables of sqlite_master
sqlite_prim_read_table_schema(db, tx, f) ==
    LET n == Cardinality({k \in Keys : db[k].exists})
        k == StepsThrough(1, n, f)
    IN  [Stepped(Outcome(db, tx), k, StepOf(k, n, f), f) EXCEPT !.ret = 0]

\* *row_count after the first pass of sqlite_prim_get_all_rows that made k
\* sqlite3_step calls: one (*row_count)++ for each call that gave SQLITE_ROW
CountedRowsMutSteps(k) == k

CountedRows(k) == k - 1

\* sqlite_prim_get_all_rows: the first pass counts the rows, sqlite3_reset, the
\* second pass fills the array of row_count slots.  No step's outcome is looked
\* at beyond "is it a row", and no malloc is checked: a second pass longer than
\* the first, or a failed malloc with a row to store, writes outside the array.

\* the sqlite3_step calls of the first pass over the table as it is then
FirstPassSteps(db, nm, f) ==
    StepsThrough(1, Cardinality(Rowids(Lookup(db, nm))), f)

\* sqlite3_reset, malloc of CountedRows(k1) slots, and the second pass over the
\* table as it is then; k1: the sqlite3_step calls the first pass made
SecondPass(db, tx, nm, k1, f, af) ==
    LET o == Outcome(db, tx)
        tb == Lookup(db, nm)
        n == Cardinality(Rowids(tb))
        f2 == IF f > k1 THEN f - k1 ELSE 0
        k2 == StepsThrough(1, n, f2)
        ids == SortedIds(Rowids(tb))
        wild == (k2 - 1 > CountedRows(k1)) \/ (af /\ k2 - 1 > 0)
        got == [o EXCEPT
                   !.prep = 1, !.fin = 1, !.steps = k1 + k2,
                   !.last = StepOf(k2, n, f2),
                   !.fault = (f # 0 /\ f <= k1 + k2),
                   !.ret = 0, !.row_count = CountedRows(k1), !.written = k2 - 1,
                   !.col_count = Len(tb.cols),
                   !.allocs = IF af THEN 0 ELSE k2,
                   !.nomem = af,
                   !.out = [i \in 1..(k2 - 1) |->
                               RowTexts(tb, ids[i], Len(tb.cols))]]
    IN  IF wild THEN {[got EXCEPT !.crash = TRUE, !.fin = 0, !.out = <<>>], got}
        ELSE {got}

sqlite_prim_get_all_rows(db, tx, nm, f, af) ==
    IF ~Lookup(db, nm).exists THEN {[Outcome(db, tx) EXCEPT !.ret = -1]}
    ELSE SecondPass(db, tx, nm, FirstPassSteps(db, nm, f), f, af)

\* sqlite3_prepare_v2 of SELECT "column" FROM table WHERE rowid = ?: a
\* double-quoted name that is no column of the table is a string literal in a
\* build of the engine that accepts double-quoted strings, an error in one that
\* does not
CellPrepares(db, nm, column) ==
    IF ~Lookup(db, nm).exists THEN {FALSE}
    ELSE IF ColIndex(Lookup(db, nm), column) # 0 THEN {TRUE}
    ELSE {TRUE, FALSE}

\* the value of the selected expression in the row
CellOf(tb, r, column) ==
    IF ColIndex(tb, column) # 0 THEN tb.rows[r][ColIndex(tb, column)] ELSE TextV(column)

\* sqlite_prim_get_cell_value: strdup of the text of the cell, or NULL.  ret is
\* 0 for a string, -1 for NULL; af: strdup returns NULL.
sqlite_prim_get_cell_value(db, tx, nm, row_id, column, f, af) ==
    LET o == Outcome(db, tx)
        tb == Lookup(db, nm)
        none == [o EXCEPT !.ret = -1, !.out = <<Absent>>]
    IN  {IF ~ok THEN none
         ELSE IF f = 1 THEN Stepped(none, 1, "error", f)
         ELSE IF row_id \notin Rowids(tb) THEN Stepped(none, 1, "done", f)
         ELSE IF ColumnText(CellOf(tb, row_id, column)) = Absent
              THEN Stepped(none, 1, "row", f)
         ELSE IF af THEN [Stepped(none, 1, "row", f) EXCEPT !.nomem = TRUE]
         ELSE [Stepped(o, 1, "row", f) EXCEPT
                  !.ret = 0, !.allocs = 1,
                  !.out = <<ColumnText(CellOf(tb, row_id, column))>>]
         : ok \in CellPrepares(db, nm, column)}

\* sqlite3_column_int: the low bits of the 64-bit integer
ColumnInt(v) == ToInt(v)

\* rows of the table whose column equals the bound text, in scan order; the
\* column's affinity is applied to the text before the comparison
ValueMatches(tb, column, value) ==
    SelectSeq(SortedIds(Rowids(tb)),
              LAMBDA r : tb.rows[r][ColIndex(tb, column)] =
                             Affinity(tb.cols[ColIndex(tb, column)].aff, value))

\* what sqlite_prim_get_rowid_by_column_value returns for the rows that match
FoundRowid(matches) == IF matches = <<>> THEN -1 ELSE ColumnInt(matches[1])

\* sqlite_prim_get_rowid_by_column_value
sqlite_prim_get_rowid_by_column_value(db, tx, nm, column, value, f) ==
    LET o == Outcome(db, tx)
        tb == Lookup(db, nm)
    IN  IF ~tb.exists \/ ColIndex(tb, column) = 0 THEN [o EXCEPT !.ret = -1]
        ELSE IF f = 1 THEN [Stepped(o, 1, "error", f) EXCEPT !.ret = -1]
        ELSE LET matches == ValueMatches(tb, column, value)
             IN  [Stepped(o, 1, IF matches = <<>> THEN "done" ELSE "row", f) EXCEPT
                     !.ret = FoundRowid(matches),
                     !.rowid = IF matches = <<>> THEN 0 ELSE matches[1]]

----------------------------------------------------------------------------
\* The boundary

\* what a caller may hand over as the connection: a null pointer, or the pointer
\* sqlite_dpi_open_database returned last
Handles == {"null", "live"}

\* int row_id
RowIdArgs == CInts

\* the table the row operations are asked for
RowTables == {<<"t">>}

\* flat column lists and flat value lists handed to insert
FlatCols ==
    {<<"id", ",", "name">>, <<"name", ",", "id">>, <<"id">>, <<"name">>,
     <<>>, <<"id", ",", ",", "name">>, <<"name", ",", "x">>}

FlatVals ==
    {<<"1", ",", "a">>, <<"a", ",", "1">>, <<"1">>, <<"a">>,
     <<>>, <<",", "1", ",", "a">>, <<"5", ",", "a">>}

\* query texts handed to execute: one that does not parse, SELECT * FROM t,
\* BEGIN, COMMIT, INSERT INTO t (name) VALUES ('')
ExecQueries ==
    {Query("bad", <<>>, <<>>), Query("select", <<"t">>, <<>>),
     Query("begin", <<>>, <<>>), Query("commit", <<>>, <<>>),
     Query("insert_blank", <<"t">>, <<>>)}

\* the caller is between two calls
NoCall ==
    [op |-> "none", h |-> "live", table |-> <<>>, id |-> 0, n |-> 0,
     cols |-> <<>>, vals |-> <<>>, kind |-> "",
     ret |-> 0, prep |-> 0, fin |-> 0, steps |-> 0, last |-> "none", fault |-> FALSE,
     allocs |-> 0, nomem |-> FALSE, out |-> <<>>, rowid |-> 0, added |-> FALSE,
     removed |-> 0, row_count |-> 0, col_count |-> 0, written |-> 0, engine |-> "none"]

\* the record of a call: the outcome's results beside what was asked, and the
\* kind of pointer the engine was called with, if it was called
Returned(c, o, how) ==
    [c EXCEPT !.ret = o.ret, !.prep = o.prep, !.fin = o.fin, !.steps = o.steps,
              !.last = o.last, !.fault = o.fault, !.allocs = o.allocs,
              !.nomem = o.nomem, !.out = o.out, !.rowid = o.rowid, !.added = o.added,
              !.removed = o.removed, !.row_count = o.row_count,
              !.col_count = o.col_count,
              !.written = o.written, !.engine = IF o.engine THEN how ELSE "none"]

Idle == conn # "crashed" /\ call = NoCall

\* a function that hands the pointer on unchecked: the engine is called with a
\* null pointer (it answers SQLITE_MISUSE to sqlite3_prepare_v2, so the function
\* takes its prepare-failure exit), with a closed connection (freed memory: a
\* misuse answer or the death of the process), or with the open connection.
\* plain: the arguments are the ones the record of a call that never reaches the
\* database keeps.
Across(op, h, c, plain, outs, nullOut) ==
    /\ Idle
    /\ h = "live" => conn # "new"
    /\ CASE h = "null" ->
                /\ plain
                /\ call' = Returned([NoCall EXCEPT !.op = op, !.h = h], nullOut, "null")
                /\ UNCHANGED <<tables, txn, conn>>
         [] h = "live" /\ conn = "closed" ->
                /\ plain
                /\ \E dies \in BOOLEAN :
                      /\ call' = Returned([NoCall EXCEPT !.op = op, !.h = h],
                                          [nullOut EXCEPT !.engine = TRUE], "closed")
                      /\ conn' = IF dies THEN "crashed" ELSE conn
                /\ UNCHANGED <<tables, txn>>
         [] OTHER ->
                \E o \in outs :
                    /\ call' = Returned([c EXCEPT !.op = op, !.h = h], o, "open")
                    /\ tables' = o.tables
                    /\ txn' = o.txn
                    /\ conn' = IF o.crash THEN "crashed" ELSE conn

\* an entry point that hands db on unchecked: the null pointer reaches
\* sqlite3_prepare_v2, which answers SQLITE_MISUSE
Through(op, h, c, plain, outs) ==
    Across(op, h, c, plain, outs, [Outcome(tables, txn) EXCEPT !.ret = -1])

\* an entry point that tests !db first and returns its failure value
Checked(op, h, c, plain, outs, failure) ==
    Across(op, h, c, plain, outs, [failure EXCEPT !.engine = FALSE])

\* a transaction of the model holds one write
MayWrite == ~txn.dirty

\* the caller takes the result and goes on
Return ==
    /\ conn # "crashed"
    /\ call # NoCall
    /\ call' = NoCall
    /\ UNCHANGED <<tables, txn, conn>>

\* sqlite_dpi_open_database: a new connection to the database file
Open ==
    /\ Idle
    /\ conn \in {"new", "closed"}
    /\ conn' = "open"
    /\ call' = [NoCall EXCEPT !.op = "open", !.engine = "open"]
    /\ UNCHANGED <<tables, txn>>

\* sqlite_dpi_close_database: sqlite3_close rolls an open transaction back
Close(h) ==
    /\ Idle
    /\ h = "live" => conn # "new"
    /\ CASE h = "null" ->
                /\ call' = [NoCall EXCEPT !.op = "close", !.h = h, !.engine = "null"]
                /\ UNCHANGED <<tables, txn, conn>>
         [] h = "live" /\ conn = "closed" ->
                /\ \E dies \in BOOLEAN :
                      /\ call' = [NoCall EXCEPT !.op = "close", !.h = h,
                                                !.engine = "closed"]
                      /\ conn' = IF dies THEN "crashed" ELSE conn
                /\ UNCHANGED <<tables, txn>>
         [] OTHER ->
                /\ call' = [NoCall EXCEPT !.op = "close", !.h = h, !.engine = "open"]
                /\ conn' = "closed"
                /\ tables' = IF txn.active THEN txn.saved ELSE tables
                /\ txn' = NoTxn

\* sqlite_dpi_execute_query
Execute(h, q, f) ==
    /\ q.kind = "insert_blank"
          => /\ MayWrite
             /\ Cardinality(Rowids(Lookup(tables, q.table))) < MaxRows
             /\ \A r \in Rowids(Lookup(tables, q.table)) : r < RowidMax
    /\ Through("execute", h, [NoCall EXCEPT !.kind = q.kind],
            q.kind = "bad" /\ f = 0,
            {sqlite_prim_execute_query(tables, txn, q, f)})

\* sqlite_dpi_create_table
CreateTable(h, nm, defs, f) ==
    /\ MayWrite
    /\ Through("create_table", h, [NoCall EXCEPT !.table = nm],
               nm = <<"t">> /\ defs = PkDefs /\ f = 0,
               {sqlite_prim_create_table(tables, txn, nm, defs, f)})

\* sqlite_dpi_drop_table
DropTable(h, nm, f) ==
    /\ MayWrite
    /\ Through("drop_table", h, [NoCall EXCEPT !.table = nm],
               nm = <<"t">> /\ f = 0,
               {sqlite_prim_drop_table(tables, txn, nm, f)})

\* sqlite_dpi_table_exists
TableExists(h, nm, f) ==
    Through("table_exists", h, [NoCall EXCEPT !.table = nm],
            nm = <<"t">> /\ f = 0,
            {sqlite_prim_table_exists(tables, txn, nm, f)})

\* sqlite_dpi_read_schema
ReadSchema(h, f) ==
    Through("read_schema", h, NoCall, f = 0,
            {sqlite_prim_read_table_schema(tables, txn, f)})

\* sqlite_dpi_begin_transaction
Begin(h, f) ==
    Through("begin", h, NoCall, f = 0, {sqlite_prim_begin_transaction(tables, txn, f)})

\* sqlite_dpi_commit_transaction
Commit(h, f) ==
    Through("commit", h, NoCall, f = 0, {sqlite_prim_commit_transaction(tables, txn, f)})

\* sqlite_dpi_rollback_transaction
Rollback(h, f) ==
    Through("rollback", h, NoCall, f = 0,
            {sqlite_prim_rollback_transaction(tables, txn, f)})

\* sqlite_dpi_vacuum_database
Vacuum(h, f) ==
    Through("vacuum", h, NoCall, f = 0, {sqlite_prim_vacuum_database(tables, txn, f)})

\* the arity check of sqlite_dpi_insert_row: col_count != val_count
ArityMismatchMutNever(cc, vc) == FALSE

ArityMismatch(cc, vc) == cc # vc

\* sqlite_dpi_insert_row: decode both lists, compare the counts, insert.  The
\* record keeps the two decoded arrays.
Insert(h, nm, columns_str, values_str, f) ==
    LET columns == StrtokAll(columns_str)
        values == StrtokAll(values_str)
        col_count == Len(columns)
        val_count == Len(values)
    IN  /\ MayWrite
        /\ Cardinality(Rowids(Lookup(tables, nm))) < MaxRows
        /\ Through("insert", h,
                   [NoCall EXCEPT !.table = nm, !.cols = columns, !.vals = values],
                   columns_str = <<>> /\ values_str = <<>> /\ f = 0,
                   IF ArityMismatch(col_count, val_count)
                   THEN {[Outcome(tables, txn) EXCEPT !.ret = -1, !.engine = FALSE]}
                   ELSE sqlite_prim_insert_row(tables, txn, nm, columns, values,
                                               col_count, f))

\* sqlite_dpi_delete_row
DeleteRow(h, nm, row_id, f) ==
    /\ MayWrite
    /\ Through("delete_row", h, [NoCall EXCEPT !.table = nm, !.id = row_id],
               row_id = 0 /\ f = 0,
               {sqlite_prim_delete_row(tables, txn, nm, row_id, f)})

\* sqlite_dpi_get_row: the arrays are freed again; the status is what comes back
GetRow(h, nm, row_id, f, af) ==
    Through("get_row", h, [NoCall EXCEPT !.table = nm, !.id = row_id],
            row_id = 0 /\ f = 0 /\ ~af,
            sqlite_prim_get_row(tables, txn, nm, row_id, f, af))

\* sqlite_prim_get_row_by_rowid, which the simulator calls directly
GetRowByRowid(h, nm, row_id, col_count, f, af) ==
    Through("get_row_by_rowid", h,
            [NoCall EXCEPT !.table = nm, !.id = row_id, !.n = col_count],
            row_id = 0 /\ col_count = 1 /\ f = 0 /\ ~af,
            {sqlite_prim_get_row_by_rowid(tables, txn, nm, row_id, col_count, f, af)})

\* sqlite_dpi_get_all_rows
GetAllRows(h, nm, f, af) ==
    Through("get_all_rows", h, [NoCall EXCEPT !.table = nm],
            f = 0 /\ ~af,
            sqlite_prim_get_all_rows(tables, txn, nm, f, af))

\* const char *column, const char *value of the lookups
ColumnArgs == {IdCol, NameCol}

ValueArgs == {<<"1">>, <<"a">>}

\* sqlite_dpi_get_cell_value
GetCell(h, nm, row_id, column, f, af) ==
    Checked("get_cell", h,
            [NoCall EXCEPT !.table = nm, !.id = row_id, !.cols = <<column>>],
            row_id = 0 /\ column = IdCol /\ f = 0 /\ ~af,
            sqlite_prim_get_cell_value(tables, txn, nm, row_id, column, f, af),
            [Outcome(tables, txn) EXCEPT !.ret = -1, !.out = <<Absent>>])

\* sqlite_dpi_get_rowid_by_column_value
GetRowidByColumnValue(h, nm, column, value, f) ==
    Checked("get_rowid_by_column_value", h,
            [NoCall EXCEPT !.table = nm, !.cols = <<column>>, !.vals = <<value>>],
            column = IdCol /\ value = <<"1">> /\ f = 0,
            {sqlite_prim_get_rowid_by_column_value(tables, txn, nm, column, value, f)},
            [Outcome(tables, txn) EXCEPT !.ret = -1])

Init ==
    /\ tables = EmptyDb
    /\ txn = NoTxn
    /\ conn = "new"
    /\ call = NoCall

Next ==
    \/ Return
    \/ Open
    \/ \E h \in Handles : Close(h)
    \/ \E h \in Handles, q \in ExecQueries, f \in 0..(MaxRows + 1) : Execute(h, q, f)
    \/ \E h \in Handles, nm \in TableNames, defs \in ColumnDefs, f \in 0..1 :
          CreateTable(h, nm, defs, f)
    \/ \E h \in Handles, nm \in TableNames, f \in 0..1 : DropTable(h, nm, f)
    \/ \E h \in Handles, nm \in TableNames, f \in 0..1 : TableExists(h, nm, f)
    \/ \E h \in Handles, f \in 0..1 : ReadSchema(h, f)
    \/ \E h \in Handles, f \in 0..1 : Begin(h, f)
    \/ \E h \in Handles, f \in 0..1 : Commit(h, f)
    \/ \E h \in Handles, f \in 0..1 : Rollback(h, f)
    \/ \E h \in Handles, f \in 0..1 : Vacuum(h, f)
    \/ \E h \in Handles, nm \in RowTables, cs \in FlatCols, vs \in FlatVals, f \in 0..1 :
          Insert(h, nm, cs, vs, f)
    \/ \E h \in Handles, nm \in RowTables, id \in RowIdArgs, f \in 0..1 :
          DeleteRow(h, nm, id, f)
    \/ \E h \in Handles, nm \in RowTables, id \in RowIdArgs, f \in 0..1, af \in BOOLEAN :
          GetRow(h, nm, id, f, af)
    \/ \E h \in Handles, nm \in RowTables, id \in RowIdArgs, n \in 1..2, f \in 0..1,
          af \in BOOLEAN :
          GetRowByRowid(h, nm, id, n, f, af)
    \/ \E h \in Handles, nm \in RowTables, f \in 0..(2 * MaxRows + 2), af \in BOOLEAN :
          GetAllRows(h, nm, f, af)
    \/ \E h \in Handles, nm \in RowTables, id \in RowIdArgs, cn \in ColumnArgs,
          f \in 0..1, af \in BOOLEAN :
          GetCell(h, nm, id, cn, f, af)
    \/ \E h \in Handles, nm \in RowTables, cn \in ColumnArgs, v \in ValueArgs, f \in 0..1 :
          GetRowidByColumnValue(h, nm, cn, v, f)

Spec == Init /\ [][Next]_vars

----------------------------------------------------------------------------
\* Properties

\* the call reached the engine through the open connection
Reached(op) == call.op = op /\ call.engine = "open"

\* the table holds a row whose id column is the integer
HasId(db, nm, row_id) ==
    IdPrepareOk(db, nm) /\ IdMatches(Lookup(db, nm), row_id) # <<>>

\* C1: sqlite_dpi_insert_row with column and value lists that decode to
\* different token counts returns a negative status and issues no SQL: the
\* engine is not called, no statement is prepared or stepped, and the database
\* and the transaction are as they were.
C1_ArityMismatch ==
    [][(call'.op = "insert" /\ Len(call'.cols) # Len(call'.vals))
         => /\ call'.ret < 0
            /\ call'.engine = "none"
            /\ call'.prep = 0
            /\ call'.steps = 0
            /\ ~call'.added
            /\ tables' = tables
            /\ txn' = txn]_vars

\* two columns against one value, on a table that has both columns
C1_Witness ==
    /\ call.op = "insert"
    /\ call.cols = <<IdCol, NameCol>>
    /\ Len(call.vals) = 1
    /\ Lookup(tables, call.table).cols = PkDefs
    /\ call.ret < 0

\* C2: whenever insert succeeds, get_row_by_rowid with the identifier insert
\* returned and col_count the number of inserted columns succeeds and yields
\* the inserted values, in the order they were given to insert.
C2_InsertThenGetRowByRowid ==
    (Reached("insert") /\ call.ret > 0)
        => LET got == sqlite_prim_get_row_by_rowid(tables, txn, call.table, call.ret,
                                                   Len(call.cols), 0, FALSE)
           IN  /\ got.ret = 0
               /\ got.out = [i \in 1..Len(call.cols) |-> Some(call.vals[i])]

\* C3: whenever insert adds a row, it returns a positive integer equal to the
\* engine's row identifier of that row; whenever it returns a negative value,
\* no row was added.
C3_InsertReturnsRowid ==
    Reached("insert")
        => /\ call.added => (call.ret > 0 /\ call.ret = call.rowid)
           /\ call.ret < 0 => ~call.added

\* C4: every entry point called with a null connection handle returns its
\* failure value and does not pass the null handle to the engine.
C4_NullHandleRejected ==
    (call.op # "none" /\ call.h = "null")
        => /\ call.engine = "none"
           /\ call.op # "close" => call.ret < 0

\* C5: execute returns 0 exactly when the statement was prepared and the
\* stepping ended with Done, every row consumed; it returns a negative status
\* when preparation fails, nothing stepped, and when a step ends in an error.
C5_ExecuteStatus ==
    Reached("execute")
        => /\ call.ret = 0 <=> (call.prep = 1 /\ call.last = "done")
           /\ call.ret # 0 => call.ret < 0
           /\ call.prep = 0 => (call.ret < 0 /\ call.steps = 0)
           /\ call.last = "error" => call.ret < 0
           /\ (call.ret = 0 /\ call.kind = "select")
                => call.steps = Cardinality(Rowids(Lookup(tables, <<"t">>))) + 1
           /\ call.fin = call.prep

\* a select over a table with rows, run to Done
C5_Witness ==
    /\ Reached("execute")
    /\ call.kind = "select"
    /\ call.steps >= 2
    /\ call.ret = 0

\* C6: whenever a step of the engine inside an operation ends in an error
\* rather than Row or Done, the operation returns a negative status.
C6_StepErrorIsNegative ==
    (call.engine = "open" /\ call.last = "error") => call.ret < 0

\* C7: begin while a transaction is open fails and leaves it open; commit or
\* rollback while none is open fails and leaves the connection outside a
\* transaction; begin outside a transaction and commit or rollback inside one
\* return 0 and toggle the transaction state (the engine reporting no failure
\* of its own on the statement).
C7_TransactionUsage ==
    [][(call'.op \in {"begin", "commit", "rollback"} /\ call'.engine = "open")
         => IF (call'.op = "begin") <=> txn.active
            THEN call'.ret < 0 /\ txn'.active = txn.active
            ELSE /\ call'.fault => (call'.ret < 0 /\ txn'.active = txn.active)
                 /\ ~call'.fault => (call'.ret = 0 /\ txn'.active = ~txn.active)]_vars

\* a begin refused inside an open transaction
C7_Witness ==
    /\ Reached("begin")
    /\ ~call.fault
    /\ call.ret < 0
    /\ txn.active

\* C8: for every table name, table_exists returns 1 right after a successful
\* create_table of that name and 0 right after a successful drop_table of that
\* name; its result is one of 1, 0 or a negative value.
C8_TableExistsFollowsDdl ==
    /\ (Reached("create_table") /\ call.ret = 0)
         => sqlite_prim_table_exists(tables, txn, call.table, 0).ret = 1
    /\ (Reached("drop_table") /\ call.ret = 0)
         => sqlite_prim_table_exists(tables, txn, call.table, 0).ret = 0
    /\ Reached("table_exists") => (call.ret \in {0, 1} \/ call.ret < 0)

\* C9: delete_row on an existing table that holds no row with that id returns
\* 0 (the engine reporting no failure of its own) and leaves the table's rows,
\* and so its row count, as they were.
C9_DeleteAbsentId ==
    [][(/\ call'.op = "delete_row"
        /\ call'.engine = "open"
        /\ IdPrepareOk(tables, call'.table)
        /\ ~HasId(tables, call'.table, call'.id))
         => /\ tables' = tables
            /\ ~call'.fault => call'.ret = 0
            /\ call'.fault => call'.ret < 0]_vars

\* a delete that found nothing to remove in a table that has rows
C9_Witness ==
    /\ Reached("delete_row")
    /\ Rowids(Lookup(tables, call.table)) # {}
    /\ call.removed = 0
    /\ call.ret = 0

C11_InsertThenGetCell ==
    /\ (Reached("insert") /\ call.ret > 0)
         => \A i \in 1..Len(call.cols) :
               \A o \in sqlite_prim_get_cell_value(tables, txn, call.table, call.ret,
                                                   call.cols[i], 0, FALSE) :
                   o.ret = 0 /\ o.out = <<Some(call.vals[i])>>
    /\ (Reached("get_cell") /\ call.id \notin Rowids(Lookup(tables, call.table)))
         => call.out = <<Absent>>


\* C12: get_all_rows on an existing table with no rows returns success with
\* row_count = 0 and col_count the number of columns of the table, and writes
\* no row slot.
C12_GetAllRowsEmpty ==
    (/\ Reached("get_all_rows")
     /\ Lookup(tables, call.table).exists
     /\ Rowids(Lookup(tables, call.table)) = {})
        => /\ call.ret = 0
           /\ call.row_count = 0
           /\ call.col_count = Len(Lookup(tables, call.table).cols)
           /\ call.written = 0
           /\ call.out = <<>>
           /\ conn # "crashed"

\* the empty two-column table read
C12_Witness ==
    /\ Reached("get_all_rows")
    /\ Lookup(tables, call.table).cols = PkDefs
    /\ Rowids(Lookup(tables, call.table)) = {}
    /\ call.col_count = 2
    /\ call.ret = 0


\* C13: with the table not modified during the call, get_all_rows returns a
\* rectangular snapshot: row_count is the number of rows of the table, every
\* slot 0..row_count-1 is filled with the col_count values of one table row,
\* in the engine's row order, and nothing is written outside the slots.
C13_GetAllRowsRectangular ==
    (/\ Reached("get_all_rows")
     /\ Lookup(tables, call.table).exists
     /\ ~call.nomem)
        => LET tb == Lookup(tables, call.table)
               ids == SortedIds(Rowids(tb))
           IN  /\ conn # "crashed"
               /\ call.ret = 0
               /\ call.row_count = Cardinality(Rowids(tb))
               /\ call.written = call.row_count
               /\ call.col_count = Len(tb.cols)
               /\ call.out = [i \in 1..call.row_count |->
                                 RowTexts(tb, ids[i], call.col_count)]


----------------------------------------------------------------------------
\* The flat-list protocol on its own: a sequence of tokens is joined with ","
\* by the caller and decoded as sqlite_dpi_insert_row decodes its arguments.

\* tokens a list is made of at most
MaxTokens == 3

\* comma-free tokens: the empty one, one symbol, two symbols
FlatTokens == {<<>>, <<"a">>, <<"1">>, <<"a", "b">>}

TokenLists == UNION {[1..n -> FlatTokens] : n \in 0..MaxTokens}

\* token1,token2,...,tokenN
RECURSIVE Join(_)
Join(toks) ==
    IF toks = <<>> THEN <<>>
    ELSE IF Len(toks) = 1 THEN toks[1]
    ELSE toks[1] \o <<Sep>> \o Join(Tail(toks))

\* the number of separators in a text
RECURSIVE Commas(_)
Commas(s) ==
    IF s = <<>> THEN 0 ELSE (IF Head(s) = Sep THEN 1 ELSE 0) + Commas(Tail(s))

\* decode_flat_list: a token is whatever lies between separators
RECURSIVE decode_flat_list(_)
decode_flat_list(s) ==
    LET n == TokLen(s)
    IN  IF n = Len(s) THEN <<s>>
        ELSE <<SubSeq(s, 1, n)>> \o decode_flat_list(SubSeq(s, n + 2, Len(s)))

\* the caller holds a list of tokens
InitFlat ==
    /\ tables = EmptyDb
    /\ txn = NoTxn
    /\ conn = "new"
    /\ \E toks \in TokenLists : call = [NoCall EXCEPT !.op = "tokens", !.cols = toks]

\* the caller joins the tokens into the text it hands over
Encode ==
    /\ call.op = "tokens"
    /\ call' = [call EXCEPT !.op = "encoded", !.out = Join(call.cols)]
    /\ UNCHANGED <<tables, txn, conn>>

\* the strtok loop of sqlite_dpi_insert_row over the text
Decode ==
    /\ call.op = "encoded"
    /\ call' = [call EXCEPT !.op = "decoded", !.vals = StrtokAll(call.out)]
    /\ UNCHANGED <<tables, txn, conn>>

NextFlat == Encode \/ Decode

SpecFlat == InitFlat /\ [][NextFlat]_vars

\* C14: joining an ordered sequence of comma-free tokens with "," and decoding
\* the result as insert does yields the original sequence, same length and
\* same order.
C14_FlatListRoundTrip ==
    call.op = "decoded" => call.vals = call.cols

\* C15: decoding splits on every ",": the number of decoded tokens is the
\* number of commas plus one, with an empty token between two adjacent
\* separators, before a leading and after a trailing one.
C15_DecodeKeepsEmptyTokens ==
    call.op = "decoded"
        => /\ Len(call.vals) = Commas(call.out) + 1
           /\ call.vals = decode_flat_list(call.out)


\* C16: an operation issued on a connection handle after close has been called
\* on it is rejected and never executed against the engine: no sequence of
\* boundary calls reaches an engine call on a closed connection.
C16_NoUseAfterClose ==
    call.engine # "closed"


\* C17: the two row-identity schemes stay distinct.  delete_row(table, k)
\* removes exactly the rows whose id column equals k and leaves every other
\* row as it was, a row whose engine row identifier is k but whose id column
\* is not k included; get_row selects by the id column; get_row_by_rowid,
\* get_cell and get_rowid_by_column_value go by the engine row identifier.
C17_TwoIdentities ==
    [][LET tb == Lookup(tables, call'.table)
           after == Lookup(tables', call'.table)
           by(op) == call'.op = op /\ call'.engine = "open"
       IN  /\ (by("delete_row") /\ call'.ret = 0)
                => /\ Rowids(after) =
                        {r \in Rowids(tb) : tb.rows[r][ColIndex(tb, IdCol)] # IntV(call'.id)}
                   /\ \A r \in Rowids(after) : after.rows[r] = tb.rows[r]
                   /\ after.cols = tb.cols
           /\ (by("delete_row") /\ call'.ret # 0) => tables' = tables
           /\ (by("get_row") /\ call'.ret = 0 /\ conn' # "crashed")
                => \E r \in Rowids(tb) :
                      /\ tb.rows[r][ColIndex(tb, IdCol)] = IntV(call'.id)
                      /\ \A q \in Rowids(tb) :
                            tb.rows[q][ColIndex(tb, IdCol)] = IntV(call'.id) => r <= q
                      /\ call'.out = RowTexts(tb, r, Len(tb.cols))
           /\ (by("get_row_by_rowid") /\ call'.ret = 0)
                => /\ call'.id \in Rowids(tb)
                   /\ call'.out = RowTexts(tb, call'.id, call'.n)
           /\ (by("get_cell") /\ call'.ret = 0)
                => /\ call'.id \in Rowids(tb)
                   /\ call'.out = <<ColumnText(CellOf(tb, call'.id, call'.cols[1]))>>
           /\ (by("get_rowid_by_column_value") /\ call'.last = "row")
                => /\ call'.rowid \in Rowids(tb)
                   /\ call'.rowid \in CInts => call'.ret = call'.rowid]_vars

\* a delete by id k that removed a row and left the row whose engine row
\* identifier is k
C17_Witness ==
    /\ Reached("delete_row")
    /\ call.ret = 0
    /\ call.removed > 0
    /\ call.id \in Rowids(Lookup(tables, call.table))


\* C18: get_rowid_by_column_value returns the engine row identifier of the
\* first row whose column equals the value when such a row exists, and -1 when
\* no row matches, when the handle is null, or when preparation fails; it
\* never modifies the table.
C18_RowidByColumnValue ==
    [][(call'.op = "get_rowid_by_column_value" /\ call'.engine # "closed")
         => LET tb == Lookup(tables, call'.table)
                column == call'.cols[1]
                prepared == call'.h = "live" /\ tb.exists /\ ColIndex(tb, column) # 0
                matches == IF prepared THEN ValueMatches(tb, column, call'.vals[1])
                           ELSE <<>>
            IN  /\ tables' = tables
                /\ call'.h = "null" => (call'.ret = -1 /\ call'.engine = "none")
                /\ matches = <<>> => call'.ret = -1
                /\ (matches # <<>> /\ ~call'.fault) => call'.ret = matches[1]
                /\ (matches # <<>> /\ call'.fault) => call'.ret = -1]_vars


C21_AllocationFailureReported ==
    (/\ call.op \in {"get_row", "get_row_by_rowid", "get_all_rows"}
     /\ call.engine = "open"
     /\ call.nomem
     /\ call.op = "get_all_rows" => Rowids(Lookup(tables, call.table)) # {})
        => /\ conn # "crashed"
           /\ call.ret < 0
           /\ call.fin = call.prep


----------------------------------------------------------------------------
\* get_all_rows beside another writer to the same database file.  Outside a
\* transaction the connection gives up its read lock when the first pass ends
\* and the statement is reset, so another connection may commit inserts and
\* deletes before the second pass; inside a transaction of the connection the
\* lock (or the snapshot) is kept and the other writer's changes are not seen.

\* tables "id INTEGER PRIMARY KEY, name TEXT" the call may find
TwoPassDbs ==
    {[k \in Keys |->
        [exists |-> TRUE, name |-> <<"t">>, cols |-> PkDefs,
         rows |-> [r \in S |-> <<IntV(r), TextV(<<"a">>)>>]]]
     : S \in {S \in SUBSET (1..(MaxRows + 1)) : Cardinality(S) <= MaxRows}}

InitTwoPass ==
    /\ tables \in TwoPassDbs
    /\ txn \in {NoTxn, [active |-> TRUE, dirty |-> FALSE, saved |-> tables]}
    /\ conn = "open"
    /\ call = NoCall

\* sqlite_prim_get_all_rows up to the malloc of the row array
FirstPass(nm) ==
    /\ call = NoCall
    /\ call' = [NoCall EXCEPT
                   !.op = "first_pass", !.table = nm,
                   !.steps = FirstPassSteps(tables, nm, 0),
                   !.row_count = CountedRows(FirstPassSteps(tables, nm, 0))]
    /\ UNCHANGED <<tables, txn, conn>>

\* another connection commits an INSERT
OtherInsert(nm) ==
    /\ call.op = "first_pass"
    /\ ~txn.active
    /\ Cardinality(Rowids(Lookup(tables, nm))) < MaxRows
    /\ \E r \in AutoRowids(Lookup(tables, nm)) :
          tables' = [tables EXCEPT ![Fold(nm)] =
                        WithRow(Lookup(tables, nm), r, <<Null, TextV(<<"a">>)>>)]
    /\ UNCHANGED <<txn, conn, call>>

\* another connection commits a DELETE
OtherDelete(nm, r) ==
    /\ call.op = "first_pass"
    /\ ~txn.active
    /\ r \in Rowids(Lookup(tables, nm))
    /\ tables' = [tables EXCEPT ![Fold(nm)].rows =
                     [x \in Rowids(Lookup(tables, nm)) \ {r} |-> tables[Fold(nm)].rows[x]]]
    /\ UNCHANGED <<txn, conn, call>>

\* sqlite_prim_get_all_rows from the second loop to its return
SecondPassDone ==
    /\ call.op = "first_pass"
    /\ \E o \in SecondPass(tables, txn, call.table, call.steps, 0, FALSE) :
          /\ call' = Returned([call EXCEPT !.op = "get_all_rows"], o, "open")
          /\ conn' = IF o.crash THEN "crashed" ELSE conn
    /\ UNCHANGED <<tables, txn>>

NextTwoPass ==
    \/ \E nm \in RowTables : FirstPass(nm)
    \/ \E nm \in RowTables : OtherInsert(nm)
    \/ \E nm \in RowTables, r \in 1..RowidMax : OtherDelete(nm, r)
    \/ SecondPassDone

SpecTwoPass == InitTwoPass /\ [][NextTwoPass]_vars

\* C22: in get_all_rows the second pass writes exactly the slots
\* 0..row_count-1 of the array sized by the first pass, in every interleaving
\* in which another writer inserts or deletes rows between the two passes.
C22_SecondPassFillsCountedSlots ==
    call.op = "get_all_rows"
        => /\ conn # "crashed"
           /\ call.written = call.row_count
           /\ Len(call.out) = call.row_count


----------------------------------------------------------------------------
\* The SQL text of an insert.  sqlite_prim_insert_row joins the column tokens
\* into cols and one "?" per token into vals, both char[1024], with strcat.
\* A token is represented by its length in bytes.

\* sizeof(cols), sizeof(vals)
ColsSize == 1024

MaxCols == 3

\* lengths of a column token: short ones, and the ones around the buffer size
TokenSizes == {1, 340, 511, 1023, 1024}

\* numbers of one-byte tokens around the size of the placeholder clause
ManyCols == {341, 342}

ColumnLists ==
    UNION {[1..n -> TokenSizes] : n \in 0..MaxCols}
        \cup {[i \in 1..n |-> 1] : n \in ManyCols}

\* strlen(cols) after iteration i of the loop over count tokens:
\* strcat(cols, columns[i]), and strcat(cols, ", ") unless it is the last
ColsLen(len, lens, i, count) ==
    len + lens[i + 1] + (IF i < count - 1 THEN 2 ELSE 0)

\* strlen(vals) after iteration i: strcat(vals, "?"), and strcat(vals, ", ")
\* unless it is the last
ValsLen(len, i, count) ==
    len + 1 + (IF i < count - 1 THEN 2 ELSE 0)

\* strcat stores the text and its terminating zero byte
Fits(len, size) == len + 1 <= size

\* the caller's two lists: the lengths of the column tokens and the number of
\* value tokens
InitBuild ==
    /\ tables = EmptyDb
    /\ txn = NoTxn
    /\ conn = "open"
    /\ \E lens \in ColumnLists, extra \in 0..1 :
          call = [op |-> "tokens", columns |-> lens, val_count |-> Len(lens) + extra,
                  ret |-> 0, i |-> 0, cols_len |-> 0, vals_len |-> 0]

\* sqlite_dpi_insert_row: the counts of the two lists must agree
CheckArity ==
    /\ call.op = "tokens"
    /\ call' = IF Len(call.columns) # call.val_count
               THEN [call EXCEPT !.op = "rejected", !.ret = -1]
               ELSE [call EXCEPT !.op = "checked"]
    /\ UNCHANGED <<tables, txn, conn>>

\* sqlite_prim_insert_row: one iteration of the strcat loop; a write past the
\* end of cols or vals is undefined, the process stops or goes on
BuildClauses ==
    /\ call.op = "checked"
    /\ conn # "crashed"
    /\ call.i < Len(call.columns)
    /\ LET count == Len(call.columns)
           c == ColsLen(call.cols_len, call.columns, call.i, count)
           v == ValsLen(call.vals_len, call.i, count)
       IN  /\ call' = [call EXCEPT !.i = @ + 1, !.cols_len = c, !.vals_len = v]
           /\ conn' \in (IF Fits(c, ColsSize) /\ Fits(v, ColsSize)
                         THEN {conn} ELSE {conn, "crashed"})
    /\ UNCHANGED <<tables, txn>>

\* sqlite_prim_insert_row: the loop is over, snprintf builds the query
BuildQuery ==
    /\ call.op = "checked"
    /\ conn # "crashed"
    /\ call.i = Len(call.columns)
    /\ call' = [call EXCEPT !.op = "built"]
    /\ UNCHANGED <<tables, txn, conn>>

NextBuild == CheckArity \/ BuildClauses \/ BuildQuery

SpecBuild == InitBuild /\ [][NextBuild]_vars

\* C23: for every insert that passes the arity check, the joined column
\* clause and the placeholder clause each stay within the 1024-byte cols and
\* vals buffers of sqlite_prim_insert_row.
C23_ClausesFitBuffers ==
    call.op \in {"checked", "built"}
        => /\ Fits(call.cols_len, ColsSize)
           /\ Fits(call.vals_len, ColsSize)
           /\ conn # "crashed"

====
